---- MODULE Spec2Model ----
(***************************************************************************)
(* GoToMeetingURLProvider: one run of main(), which calls get_g2m_info()   *)
(* and writes the two outputs env["url"] and env["build"].                 *)
(*                                                                         *)
(* Python strings are sequences of one-character strings, so that          *)
(* str.split, str.join, int() and str() are computed and not assumed.      *)
(***************************************************************************)
EXTENDS Integers, Sequences, FiniteSets, TLC

\* Largest number of entries of an activeBuilds list that is enumerated.
MaxBuilds == 2

(***************************************************************************)
(* Results of Python expressions: a value, or a raised exception class.    *)
(***************************************************************************)
Ok(v) == [ok |-> TRUE, v |-> v, exc |-> "None"]
Raise(e) == [ok |-> FALSE, v |-> <<>>, exc |-> e]

(***************************************************************************)
(* JSON scalars as json.loads delivers them (str, int, None) and the       *)
(* marker of a key that is not in the dict.                                *)
(***************************************************************************)
JStr(s) == [t |-> "str", s |-> s, n |-> 0]
JInt(n) == [t |-> "int", s |-> <<>>, n |-> n]
JNull == [t |-> "null", s |-> <<>>, n |-> 0]
Absent == [t |-> "absent", s |-> <<>>, n |-> 0]

(***************************************************************************)
(* int(x) of Python on a str or an int: surrounding whitespace is          *)
(* stripped, one sign is allowed, leading zeros are allowed, anything      *)
(* else raises ValueError; None raises TypeError.                          *)
(***************************************************************************)
Digits == {"0", "1", "2", "3", "4", "5", "6", "7", "8", "9"}

DigitVal(c) ==
    CASE c = "0" -> 0 [] c = "1" -> 1 [] c = "2" -> 2 [] c = "3" -> 3
      [] c = "4" -> 4 [] c = "5" -> 5 [] c = "6" -> 6 [] c = "7" -> 7
      [] c = "8" -> 8 [] c = "9" -> 9

DigitChar(d) ==
    CASE d = 0 -> "0" [] d = 1 -> "1" [] d = 2 -> "2" [] d = 3 -> "3"
      [] d = 4 -> "4" [] d = 5 -> "5" [] d = 6 -> "6" [] d = 7 -> "7"
      [] d = 8 -> "8" [] d = 9 -> "9"

RECURSIVE LStrip(_)
LStrip(s) == IF s # <<>> /\ Head(s) = " " THEN LStrip(Tail(s)) ELSE s

RECURSIVE RStrip(_)
RStrip(s) ==
    IF s # <<>> /\ s[Len(s)] = " " THEN RStrip(SubSeq(s, 1, Len(s) - 1)) ELSE s

RECURSIVE DigitsVal(_)
DigitsVal(s) ==
    IF s = <<>> THEN 0
    ELSE DigitsVal(SubSeq(s, 1, Len(s) - 1)) * 10 + DigitVal(s[Len(s)])

PyIntOfStr(s) ==
    LET t == RStrip(LStrip(s))
        signed == t # <<>> /\ Head(t) \in {"+", "-"}
        body == IF signed THEN Tail(t) ELSE t
    IN  IF body # <<>> /\ \A i \in 1..Len(body) : body[i] \in Digits
        THEN Ok(IF signed /\ Head(t) = "-" THEN 0 - DigitsVal(body)
                ELSE DigitsVal(body))
        ELSE Raise("ValueError")

PyInt(x) ==
    CASE x.t = "int" -> Ok(x.n)
      [] x.t = "str" -> PyIntOfStr(x.s)
      [] OTHER -> Raise("TypeError")

(***************************************************************************)
(* str(x) of Python on a str (the same string), an int (its decimal        *)
(* rendering) and None.                                                    *)
(***************************************************************************)
RECURSIVE NatStr(_)
NatStr(n) ==
    IF n < 10 THEN <<DigitChar(n)>>
    ELSE NatStr(n \div 10) \o <<DigitChar(n % 10)>>

\* A plausible slip: the build is rendered from the integer that was compared.
PyStrCanonical(x) ==
    LET k == PyInt(x)
    IN  IF ~k.ok THEN <<"N", "o", "n", "e">>
        ELSE IF k.v < 0 THEN <<"-">> \o NatStr(0 - k.v) ELSE NatStr(k.v)

PyStr(x) ==
    CASE x.t = "str" -> x.s
      [] x.t = "int" -> IF x.n < 0 THEN <<"-">> \o NatStr(0 - x.n) ELSE NatStr(x.n)
      [] OTHER -> <<"N", "o", "n", "e">>

(***************************************************************************)
(* s.split("/") and "/".join(parts).                                       *)
(***************************************************************************)
RECURSIVE SplitFrom(_, _, _)
SplitFrom(s, i, cur) ==
    IF i > Len(s) THEN <<cur>>
    ELSE IF s[i] = "/" THEN <<cur>> \o SplitFrom(s, i + 1, <<>>)
    ELSE SplitFrom(s, i + 1, Append(cur, s[i]))

Split(s) == SplitFrom(s, 1, <<>>)

RECURSIVE Join(_)
Join(parts) ==
    IF Len(parts) = 1 THEN parts[1]
    ELSE parts[1] \o <<"/">> \o Join(Tail(parts))

FILENAME == <<"G", "o", "T", "o", "M", "e", "e", "t", "i", "n", "g", ".", "d", "m", "g">>

\* A plausible slip: the filename is appended and the old one is kept.
NormalizeUrlAppend(u) == Join(Append(Split(u), FILENAME))

NormalizeUrl(u) ==
    LET url_parts == Split(u)
    IN  Join([url_parts EXCEPT ![Len(url_parts)] = FILENAME])

(***************************************************************************)
(* The decoded feed: a document, its activeBuilds value and the entries.   *)
(* An entry that is not a dict (t = "str") and a document that is not a    *)
(* dict (t = "list") are JSON the feed may hold as well.                   *)
(***************************************************************************)
Entry(bn, u) == [t |-> "obj", buildNumber |-> bn, macDownloadUrl |-> u]
NonDictEntry == [t |-> "str", buildNumber |-> Absent, macDownloadUrl |-> Absent]
NoEntry == [t |-> "none", buildNumber |-> Absent, macDownloadUrl |-> Absent]

BuildList(items) == [t |-> "list", items |-> items]
ObjDoc(ab) == [t |-> "obj", activeBuilds |-> ab]
NonDictDoc == [t |-> "list", activeBuilds |-> [t |-> "absent", items |-> <<>>]]
NoDoc == [t |-> "none", activeBuilds |-> [t |-> "absent", items |-> <<>>]]

\* A plausible slip: the build numbers are compared as strings.  The key is
\* the rank of the string in lexicographic order (digits padded on the right).
KeyOfLex(x) ==
    IF x.t # "obj" THEN Raise("TypeError")
    ELSE IF x.buildNumber.t = "absent" THEN Raise("KeyError")
    ELSE IF x.buildNumber.t # "str" THEN PyInt(x.buildNumber)
    ELSE IF ~PyInt(x.buildNumber).ok THEN PyInt(x.buildNumber)
    ELSE LET d == SelectSeq(x.buildNumber.s, LAMBDA c : c \in Digits)
             padded == [i \in 1..4 |-> IF i <= Len(d) THEN d[i] ELSE "0"]
         IN  Ok(DigitsVal(padded))

\* lambda x: int(x["buildNumber"])
KeyOf(x) ==
    IF x.t # "obj" THEN Raise("TypeError")
    ELSE IF x.buildNumber.t = "absent" THEN Raise("KeyError")
    ELSE PyInt(x.buildNumber)

(***************************************************************************)
(* max(iterable, key=...): the first item stays the maximum until an item  *)
(* with a strictly greater key is met; the key of every item is computed   *)
(* in order, and the first exception it raises ends the scan.              *)
(***************************************************************************)
\* A plausible slip: a later item with an equal key replaces the maximum.
ReplacesOnTie(k, bestKey) == k >= bestKey

Replaces(k, bestKey) == k > bestKey

RECURSIVE MaxScan(_, _, _, _)
MaxScan(items, i, best, bestKey) ==
    IF i > Len(items) THEN Ok(best)
    ELSE LET k == KeyOf(items[i])
         IN  IF ~k.ok THEN Raise(k.exc)
             ELSE IF Replaces(k.v, bestKey) THEN MaxScan(items, i + 1, items[i], k.v)
             ELSE MaxScan(items, i + 1, best, bestKey)

PyMax(items) ==
    IF items = <<>> THEN Raise("ValueError")
    ELSE LET k == KeyOf(items[1])
         IN  IF ~k.ok THEN Raise(k.exc) ELSE MaxScan(items, 2, items[1], k.v)

\* A plausible slip: the maximum is taken among the entries that have a URL.
SelectMaxWithUrl(doc) ==
    IF doc.t # "obj" THEN Raise("TypeError")
    ELSE IF doc.activeBuilds.t = "absent" THEN Raise("KeyError")
    ELSE IF doc.activeBuilds.t # "list" THEN Raise("TypeError")
    ELSE PyMax(SelectSeq(doc.activeBuilds.items,
                         LAMBDA x : x.macDownloadUrl.t = "str"
                                        /\ x.macDownloadUrl.s # <<>>))

\* max(jsondata["activeBuilds"], key=lambda x: int(x["buildNumber"]))
SelectMax(doc) ==
    IF doc.t # "obj" THEN Raise("TypeError")
    ELSE IF doc.activeBuilds.t = "absent" THEN Raise("KeyError")
    ELSE IF doc.activeBuilds.t # "list" THEN Raise("TypeError")
    ELSE PyMax(doc.activeBuilds.items)

\* max_build.get("macDownloadUrl")
GetUrl(x) == IF x.macDownloadUrl.t = "absent" THEN JNull ELSE x.macDownloadUrl

\* not g2m_url
Falsy(v) ==
    CASE v.t = "str" -> v.s = <<>>
      [] v.t = "int" -> v.n = 0
      [] OTHER -> TRUE

(***************************************************************************)
(* The bytes of the downloaded file.  gz: the bytes are a gzip stream;     *)
(* intact: the stream decompresses; json: the (decompressed) text is       *)
(* JSON, and doc is then what it parses to.                                *)
(***************************************************************************)
JsonDumps(doc) == [gz |-> FALSE, intact |-> TRUE, json |-> TRUE, doc |-> doc]
NotJsonText == [gz |-> FALSE, intact |-> TRUE, json |-> FALSE, doc |-> NoDoc]
GzipCompress(b) == [b EXCEPT !.gz = TRUE]
Corrupt(b) == [b EXCEPT !.intact = FALSE]
NoBytes == [gz |-> FALSE, intact |-> FALSE, json |-> FALSE, doc |-> NoDoc]

\* json.loads(f.read()) on the raw bytes
JsonLoads(b) == IF ~b.gz /\ b.json THEN Ok(b.doc) ELSE Raise("ValueError")

\* A plausible slip: the file is read without being decompressed.
GzipReadNoDecompress(b) == Ok(b)

\* gzip.open(meta_file, "rb").read(): bytes that are no gzip stream raise
\* BadGzipFile (an OSError), a truncated stream raises EOFError
GzipRead(b) ==
    IF ~b.gz THEN Raise("OSError")
    ELSE IF ~b.intact THEN Raise("EOFError")
    ELSE Ok([b EXCEPT !.gz = FALSE])

(***************************************************************************)
(* The feeds the download may deliver.                                     *)
(***************************************************************************)
BuildNumbers ==
    { Absent,
      JStr(<<"9">>),
      JStr(<<"1", "0">>),
      JStr(<<" ", "0", "1", "0">>),
      JStr(<<"x">>),
      JInt(10) }

Urls ==
    { Absent,
      JNull,
      JStr(<<>>),
      JStr(<<"h", ":", "/", "/", "c", "/", "9", "/", "O", ".", "d">>),
      JStr(<<"N", ".", "d">>),
      JInt(5) }

Entries == {Entry(bn, u) : bn \in BuildNumbers, u \in Urls} \cup {NonDictEntry}

BuildLists == UNION {[1..n -> Entries] : n \in 0..MaxBuilds}

Docs ==
    {ObjDoc(BuildList(items)) : items \in BuildLists}
        \cup {ObjDoc([t |-> "absent", items |-> <<>>]),
              ObjDoc([t |-> "null", items |-> <<>>]),
              NonDictDoc}

Texts == {JsonDumps(d) : d \in Docs} \cup {NotJsonText}

Feeds ==
    Texts \cup {GzipCompress(b) : b \in Texts}
          \cup {Corrupt(GzipCompress(NotJsonText)),
                Corrupt(GzipCompress(JsonDumps(ObjDoc(BuildList(<<>>)))))}

(***************************************************************************)
(* Lines 89-102 of get_g2m_info as one function of the decoded document:   *)
(* what the call returns, or the exception that ends it and where.         *)
(***************************************************************************)
Returned(url, build) ==
    [ok |-> TRUE, url |-> url, build |-> build, exc |-> "None", at |-> "none"]
Raised(exc, at) ==
    [ok |-> FALSE, url |-> <<>>, build |-> <<>>, exc |-> exc, at |-> at]

Resolve(doc) ==
    LET m == SelectMax(doc)
    IN  IF ~m.ok THEN Raised(m.exc, "select")
        ELSE IF Falsy(GetUrl(m.v)) THEN Raised("ProcessorError", "url")
        ELSE IF GetUrl(m.v).t # "str" THEN Raised("AttributeError", "normalize")
        ELSE Returned(NormalizeUrl(GetUrl(m.v).s), PyStr(m.v.buildNumber))

BASE_URL == "https://builds.cdn.getgo.com/g2mupdater/live/config.json"
OVERRIDE_URL == "https://mirror.example.com/config.json"

Unset == [set |-> FALSE, v |-> <<>>]
SetTo(v) == [set |-> TRUE, v |-> v]

\* The outputs before the run: not there, or left by an earlier processor.
NoOutputs == [url |-> Unset, build |-> Unset]
StaleOutputs == [url |-> SetTo(<<"s">>), build |-> SetTo(<<"0">>)]

NoErr == [exc |-> "None", at |-> "none"]
Err(exc, at) == [exc |-> exc, at |-> at]

VARIABLES
    pc,                   \* the statement main() or get_g2m_info() is at
    env,                  \* self.env: base_url (input), url and build (outputs)
    env0,                 \* self.env as it was when main() was entered
    download_dir_exists,  \* whether RECIPE_CACHE_DIR/downloads exists
    base_url,             \* the argument of get_g2m_info
    meta_file,            \* the bytes of the downloaded file
    jsondata,             \* the decoded document
    max_build,            \* the selected entry
    g2m_url,              \* local g2m_url: first the raw value, then the string
    g2m_build,            \* local g2m_build
    err,                  \* the exception that ended the run, and where
    fetch_calls,          \* calls of self.download_to_file
    messages,             \* lines given to self.output
    steps                 \* the statements executed, in order

vars ==
    <<pc, env, env0, download_dir_exists, base_url, meta_file, jsondata, max_build,
      g2m_url, g2m_build, err, fetch_calls, messages, steps>>

locals == <<meta_file, jsondata, max_build, g2m_url, g2m_build>>

Init ==
    /\ pc = "main"
    /\ env \in {[base_url |-> b, url |-> o.url, build |-> o.build] :
                    b \in {[set |-> FALSE, v |-> ""], [set |-> TRUE, v |-> OVERRIDE_URL]},
                    o \in {NoOutputs, StaleOutputs}}
    /\ env0 = env
    /\ download_dir_exists \in BOOLEAN
    /\ base_url = ""
    /\ meta_file = NoBytes
    /\ jsondata = NoDoc
    /\ max_build = NoEntry
    /\ g2m_url = JNull
    /\ g2m_build = <<>>
    /\ err = NoErr
    /\ fetch_calls = 0
    /\ messages = <<>>
    /\ steps = <<>>

\* An uncaught exception leaves get_g2m_info and main.
Fail(exc, at) ==
    /\ pc' = "failed"
    /\ err' = Err(exc, at)

Step(name) == steps' = Append(steps, name)

Output(text, arg) == messages' = Append(messages, [text |-> text, arg |-> arg])

\* base_url = self.env.get("base_url", BASE_URL); call get_g2m_info
MainStart ==
    /\ pc = "main"
    /\ base_url' = IF env.base_url.set THEN env.base_url.v ELSE BASE_URL
    /\ pc' = "makedirs"
    /\ Step("main")
    /\ UNCHANGED <<env, env0, download_dir_exists, locals, err, fetch_calls, messages>>

\* os.makedirs(download_dir), OSError swallowed
Makedirs ==
    /\ pc = "makedirs"
    /\ \/ ~download_dir_exists /\ download_dir_exists' = TRUE
       \/ UNCHANGED download_dir_exists
    /\ pc' = "download"
    /\ Step("makedirs")
    /\ UNCHANGED <<env, env0, base_url, locals, err, fetch_calls, messages>>

\* A plausible slip: a failed download is tried once more.
DownloadRetry ==
    /\ pc = "download"
    /\ fetch_calls' = fetch_calls + 1
    /\ Step("download")
    /\ \/ /\ download_dir_exists
          /\ \E b \in Feeds : meta_file' = b
          /\ pc' = "parse_json"
          /\ UNCHANGED err
       \/ /\ IF fetch_calls = 0
             THEN UNCHANGED <<pc, err>>
             ELSE Fail("ProcessorError", "fetch")
          /\ UNCHANGED meta_file
    /\ UNCHANGED <<env, env0, download_dir_exists, base_url, jsondata, max_build,
                   g2m_url, g2m_build, messages>>

\* meta_file = self.download_to_file(base_url, meta_path)
Download ==
    /\ pc = "download"
    /\ fetch_calls' = fetch_calls + 1
    /\ Step("download")
    /\ \/ /\ download_dir_exists
          /\ \E b \in Feeds : meta_file' = b
          /\ pc' = "parse_json"
          /\ UNCHANGED err
       \/ /\ Fail("ProcessorError", "fetch")
          /\ UNCHANGED meta_file
    /\ UNCHANGED <<env, env0, download_dir_exists, base_url, jsondata, max_build,
                   g2m_url, g2m_build, messages>>

\* try: jsondata = json.loads(f.read()) ... except ValueError:
ParseJson ==
    /\ pc = "parse_json"
    /\ Step("parse_json")
    /\ LET r == JsonLoads(meta_file)
       IN  IF r.ok
           THEN /\ jsondata' = r.v
                /\ Output("Encoding: json", <<>>)
                /\ pc' = "select"
           ELSE /\ pc' = "parse_gzip"
                /\ UNCHANGED <<jsondata, messages>>
    /\ UNCHANGED <<env, env0, download_dir_exists, base_url, meta_file, max_build,
                   g2m_url, g2m_build, err, fetch_calls>>

\* A plausible slip: a feed that cannot be decoded counts as an empty document.
ParseGzipLenient ==
    /\ pc = "parse_gzip"
    /\ Step("parse_gzip")
    /\ LET z == GzipRead(meta_file)
           r == IF z.ok THEN JsonLoads(z.v) ELSE Raise(z.exc)
       IN  /\ jsondata' = IF r.ok THEN r.v ELSE ObjDoc(BuildList(<<>>))
           /\ Output("Encoding: gzip", <<>>)
           /\ pc' = "select"
           /\ UNCHANGED err
    /\ UNCHANGED <<env, env0, download_dir_exists, base_url, meta_file, max_build,
                   g2m_url, g2m_build, fetch_calls>>

\* with gzip.open(meta_file, "rb") as f: jsondata = json.loads(f.read())
ParseGzip ==
    /\ pc = "parse_gzip"
    /\ Step("parse_gzip")
    /\ LET z == GzipRead(meta_file)
           r == IF z.ok THEN JsonLoads(z.v) ELSE Raise(z.exc)
       IN  IF r.ok
           THEN /\ jsondata' = r.v
                /\ Output("Encoding: gzip", <<>>)
                /\ pc' = "select"
                /\ UNCHANGED err
           ELSE /\ Fail(r.exc, "decode")
                /\ UNCHANGED <<jsondata, messages>>
    /\ UNCHANGED <<env, env0, download_dir_exists, base_url, meta_file, max_build,
                   g2m_url, g2m_build, fetch_calls>>

\* max_build = max(jsondata["activeBuilds"], key=...)
Select ==
    /\ pc = "select"
    /\ Step("select")
    /\ LET r == SelectMax(jsondata)
       IN  IF r.ok
           THEN /\ max_build' = r.v
                /\ pc' = "check_url"
                /\ UNCHANGED err
           ELSE /\ Fail(r.exc, "select")
                /\ UNCHANGED max_build
    /\ UNCHANGED <<env, env0, download_dir_exists, base_url, meta_file, jsondata,
                   g2m_url, g2m_build, fetch_calls, messages>>

\* g2m_url = max_build.get("macDownloadUrl"); if not g2m_url: raise
CheckUrl ==
    /\ pc = "check_url"
    /\ Step("check_url")
    /\ g2m_url' = GetUrl(max_build)
    /\ IF Falsy(GetUrl(max_build))
       THEN Fail("ProcessorError", "url")
       ELSE pc' = "normalize" /\ UNCHANGED err
    /\ UNCHANGED <<env, env0, download_dir_exists, base_url, meta_file, jsondata,
                   max_build, g2m_build, fetch_calls, messages>>

\* url_parts = g2m_url.split("/"); url_parts[-1] = ...; g2m_url = "/".join(..)
Normalize ==
    /\ pc = "normalize"
    /\ Step("normalize")
    /\ IF g2m_url.t = "str"
       THEN /\ g2m_url' = JStr(NormalizeUrl(g2m_url.s))
            /\ pc' = "build"
            /\ UNCHANGED err
       ELSE /\ Fail("AttributeError", "normalize")
            /\ UNCHANGED g2m_url
    /\ UNCHANGED <<env, env0, download_dir_exists, base_url, meta_file, jsondata,
                   max_build, g2m_build, fetch_calls, messages>>

\* g2m_build = str(max_build["buildNumber"]); return g2m_url, g2m_build
BuildAndReturn ==
    /\ pc = "build"
    /\ Step("build")
    /\ g2m_build' = PyStr(max_build.buildNumber)
    /\ pc' = "write_url"
    /\ UNCHANGED <<env, env0, download_dir_exists, base_url, meta_file, jsondata,
                   max_build, g2m_url, err, fetch_calls, messages>>

\* A plausible slip: the report after the first output raises.
WriteUrlOutputRaises ==
    /\ pc = "write_url"
    /\ Step("write_url")
    /\ env' = [env EXCEPT !.url = SetTo(g2m_url.s)]
    /\ Fail("OSError", "output")
    /\ UNCHANGED <<env0, download_dir_exists, base_url, locals, fetch_calls,
                   messages>>

\* self.env["url"] = g2m_url; self.output(...)
WriteUrl ==
    /\ pc = "write_url"
    /\ Step("write_url")
    /\ env' = [env EXCEPT !.url = SetTo(g2m_url.s)]
    /\ Output("Found URL", g2m_url.s)
    /\ pc' = "write_build"
    /\ UNCHANGED <<env0, download_dir_exists, base_url, locals, err, fetch_calls>>

\* self.env["build"] = g2m_build; self.output(...)
WriteBuild ==
    /\ pc = "write_build"
    /\ Step("write_build")
    /\ env' = [env EXCEPT !.build = SetTo(g2m_build)]
    /\ Output("Build number", g2m_build)
    /\ pc' = "done"
    /\ UNCHANGED <<env0, download_dir_exists, base_url, locals, err, fetch_calls>>

Next ==
    \/ MainStart
    \/ Makedirs
    \/ Download
    \/ ParseJson
    \/ ParseGzip
    \/ Select
    \/ CheckUrl
    \/ Normalize
    \/ BuildAndReturn
    \/ WriteUrl
    \/ WriteBuild

Spec == Init /\ [][Next]_vars

(***************************************************************************)
(* Vocabulary of the properties.                                           *)
(***************************************************************************)
Terminal == pc \in {"done", "failed"}

\* The download delivered bytes.
Fetched == meta_file # NoBytes

\* The bytes are JSON, plain or in an intact gzip stream.
Decodable(b) == b.json /\ (b.gz => b.intact)

\* The outcome of the run of main(), once it has ended.
Outcome ==
    IF pc = "done" THEN Returned(env.url.v, env.build.v)
    ELSE Raised(err.exc, err.at)

\* The three errors of the resolver's contract, as the code raises them.
FeedUnavailable(e) == e.exc = "ProcessorError" /\ e.at = "fetch"
InvalidFeedFormat(e) == e.at = "decode" /\ e.exc \in {"ValueError", "OSError", "EOFError"}
NoDownloadUrl(e) == e.exc = "ProcessorError" /\ e.at = "url"

\* A document of the documented shape: a non-empty list of dicts whose
\* buildNumber is an integer (as a string or as a number).
WellFormed(doc) ==
    /\ doc.t = "obj"
    /\ doc.activeBuilds.t = "list"
    /\ doc.activeBuilds.items # <<>>
    /\ \A i \in 1..Len(doc.activeBuilds.items) :
           LET x == doc.activeBuilds.items[i]
           IN  x.t = "obj" /\ x.buildNumber.t \in {"str", "int"} /\ PyInt(x.buildNumber).ok

Num(x) == PyInt(x.buildNumber).v

\* The maximum of the build numbers of a well-formed list, as integers.
MaxNum(items) ==
    CHOOSE m \in {Num(items[i]) : i \in 1..Len(items)} :
        \A i \in 1..Len(items) : Num(items[i]) <= m

MaxIdx(items) == {i \in 1..Len(items) : Num(items[i]) = MaxNum(items)}

FirstMaxIdx(items) == CHOOSE i \in MaxIdx(items) : \A j \in MaxIdx(items) : i <= j

Usable(u) == u.t = "str" /\ u.s # <<>>
AbsentOrEmpty(u) == u.t \in {"absent", "null"} \/ (u.t = "str" /\ u.s = <<>>)

Items == meta_file.doc.activeBuilds.items

\* The run ended and it decoded a well-formed document.
EndedOnWellFormed == Terminal /\ Fetched /\ Decodable(meta_file) /\ WellFormed(meta_file.doc)

Ran(name) == \E i \in 1..Len(steps) : steps[i] = name

LastSlash(u) ==
    IF \E i \in 1..Len(u) : u[i] = "/"
    THEN CHOOSE i \in 1..Len(u) : u[i] = "/" /\ \A j \in (i + 1)..Len(u) : u[j] # "/"
    ELSE 0

(***************************************************************************)
(* C1: for every feed document whose activeBuilds is non-empty and whose   *)
(* maximum-build entry has a non-empty macDownloadUrl, the run succeeds    *)
(* and the build it returns is, as an integer, the maximum buildNumber of  *)
(* the document, the build numbers being compared as integers.             *)
(***************************************************************************)
C1_MaxBuildReturned ==
    (EndedOnWellFormed /\ \A i \in MaxIdx(Items) : Usable(Items[i].macDownloadUrl))
        => /\ pc = "done"
           /\ PyIntOfStr(env.build.v) = Ok(MaxNum(Items))
           /\ Num(max_build) = MaxNum(Items)

\* "9" before "10": the string order would pick "9".
C1_Witness ==
    /\ pc = "done"
    /\ Len(Items) = 2
    /\ Items[1].buildNumber = JStr(<<"9">>)
    /\ Items[2].buildNumber = JStr(<<"1", "0">>)
    /\ env.build.v = <<"1", "0">>

(***************************************************************************)
(* C2: whenever get_g2m_info succeeds, the URL it returns is the selected  *)
(* entry's macDownloadUrl with the final segment replaced by               *)
(* GoToMeeting.dmg: split on "/", the last segment is GoToMeeting.dmg and  *)
(* every segment before it is the segment of the entry's URL.              *)
(***************************************************************************)
C2_LastSegmentReplaced ==
    pc \in {"build", "write_url", "write_build", "done"}
        => LET orig == max_build.macDownloadUrl.s
               got == g2m_url.s
           IN  /\ Len(Split(got)) = Len(Split(orig))
               /\ Split(got)[Len(Split(got))] = FILENAME
               /\ \A i \in 1..(Len(Split(orig)) - 1) : Split(got)[i] = Split(orig)[i]
               /\ got = SubSeq(orig, 1, LastSlash(orig)) \o FILENAME
               /\ pc = "done" => env.url = SetTo(got)

C2_Witness ==
    /\ pc = "done"
    /\ max_build.macDownloadUrl.s = <<"h", ":", "/", "/", "c", "/", "9", "/", "O", ".", "d">>
    /\ env.url.v = <<"h", ":", "/", "/", "c", "/", "9", "/">> \o FILENAME

(***************************************************************************)
(* C3: if the entry with the maximum buildNumber has macDownloadUrl absent *)
(* or empty, the run fails with the ProcessorError of the missing URL and  *)
(* no other entry is used, even when a lower build has a URL.              *)
(***************************************************************************)
C3_NoFallback ==
    (EndedOnWellFormed /\ \A i \in MaxIdx(Items) : AbsentOrEmpty(Items[i].macDownloadUrl))
        => /\ pc = "failed"
           /\ NoDownloadUrl(err)
           /\ env = env0
           /\ Num(max_build) = MaxNum(Items)

C3_Witness ==
    /\ pc = "failed"
    /\ NoDownloadUrl(err)
    /\ WellFormed(meta_file.doc)
    /\ \E i \in 1..Len(Items) :
           Num(Items[i]) < MaxNum(Items) /\ Usable(Items[i].macDownloadUrl)

(***************************************************************************)
(* C4: a run on the gzip compression of a document's JSON ends as the run  *)
(* on the JSON itself does: both end with what lines 89-102 make of the    *)
(* document; and the gzip stream is opened only after the plain parse of   *)
(* the same bytes has failed.                                              *)
(***************************************************************************)
C4_GzipAsPlain ==
    /\ (Terminal /\ Fetched /\ Decodable(meta_file)) => Outcome = Resolve(meta_file.doc)
    /\ Ran("parse_gzip") => (steps[Len(steps)] # "parse_json"
                                /\ Ran("parse_json")
                                /\ ~JsonLoads(meta_file).ok)

C4_Witness ==
    /\ pc = "done"
    /\ meta_file.gz
    /\ Ran("parse_gzip")
    /\ Outcome = Resolve(meta_file.doc)

(***************************************************************************)
(* C5: bytes that are neither JSON nor an intact gzip stream of JSON end   *)
(* the run with the error of the decoding step; nothing is returned.       *)
(***************************************************************************)
C5_InvalidFeedFormat ==
    (Terminal /\ Fetched /\ ~Decodable(meta_file))
        => /\ pc = "failed"
           /\ InvalidFeedFormat(err)
           /\ jsondata = NoDoc
           /\ g2m_build = <<>>
           /\ env = env0

\* An intact gzip stream whose content is not JSON.
C5_Witness ==
    /\ pc = "failed"
    /\ meta_file.gz /\ meta_file.intact /\ ~meta_file.json
    /\ err = Err("ValueError", "decode")

(***************************************************************************)
(* C6: no partial result: when main() has ended, either both outputs hold  *)
(* the values of the one successful resolution, or both are as they were   *)
(* before the run.                                                         *)
(***************************************************************************)
C6_NoPartialResult ==
    Terminal
        => \/ /\ pc = "done"
              /\ Resolve(meta_file.doc).ok
              /\ env.url = SetTo(Resolve(meta_file.doc).url)
              /\ env.build = SetTo(Resolve(meta_file.doc).build)
           \/ /\ pc = "failed"
              /\ env = env0

\* A failure after the selection, with outputs of an earlier run in place.
C6_Witness ==
    /\ pc = "failed"
    /\ err.at \in {"select", "url", "normalize"}
    /\ env0.url.set
    /\ env.url = env0.url /\ env.build = env0.build

(***************************************************************************)
(* C7: every failing run fails with FeedUnavailable, InvalidFeedFormat or  *)
(* NoDownloadUrl, whatever the bytes and whatever the decoded document.    *)
(***************************************************************************)
C7_OnlyThreeErrors ==
    pc = "failed" => FeedUnavailable(err) \/ InvalidFeedFormat(err) \/ NoDownloadUrl(err)

(***************************************************************************)
(* C8: failures are terminal and nothing is retried: download_to_file is   *)
(* called at most once, no statement runs twice, the statements run in     *)
(* the order of the code, and the statement that failed is the last one.   *)
(***************************************************************************)
Rank(name) ==
    CASE name = "main" -> 1 [] name = "makedirs" -> 2 [] name = "download" -> 3
      [] name = "parse_json" -> 4 [] name = "parse_gzip" -> 5 [] name = "select" -> 6
      [] name = "check_url" -> 7 [] name = "normalize" -> 8 [] name = "build" -> 9
      [] name = "write_url" -> 10 [] name = "write_build" -> 11

FailedAt(e) ==
    CASE e.at = "fetch" -> "download" [] e.at = "decode" -> "parse_gzip"
      [] e.at = "select" -> "select" [] e.at = "url" -> "check_url"
      [] e.at = "normalize" -> "normalize" [] OTHER -> "none"

C8_NoRetry ==
    /\ fetch_calls <= 1
    /\ fetch_calls = Cardinality({i \in 1..Len(steps) : steps[i] = "download"})
    /\ \A i \in 1..(Len(steps) - 1) : Rank(steps[i]) < Rank(steps[i + 1])
    /\ pc = "failed" => steps[Len(steps)] = FailedAt(err)

\* The download failed: it was called once and nothing ran after it.
C8_Witness ==
    /\ pc = "failed"
    /\ FeedUnavailable(err)
    /\ fetch_calls = 1
    /\ steps = <<"main", "makedirs", "download">>

(***************************************************************************)
(* C9: the build output is the selected entry's buildNumber as the feed    *)
(* wrote it: a string is returned unchanged (" 010" stays " 010"), an      *)
(* integer in decimal; as an integer it is the maximum build number.       *)
(***************************************************************************)
C9_BuildAsInFeed ==
    pc \in {"write_url", "write_build", "done"}
        => LET bn == max_build.buildNumber
           IN  /\ bn.t = "str" => g2m_build = bn.s
               /\ bn.t = "int" => /\ PyIntOfStr(g2m_build) = Ok(bn.n)
                                  /\ \A i \in 1..Len(g2m_build) : g2m_build[i] \in Digits
                                  /\ Len(g2m_build) > 1 => g2m_build[1] # "0"
               /\ PyIntOfStr(g2m_build) = Ok(MaxNum(Items))
               /\ pc = "done" => env.build = SetTo(g2m_build)

C9_Witness ==
    /\ pc = "done"
    /\ env.build.v = <<" ", "0", "1", "0">>
    /\ MaxNum(Items) = 10
    /\ env.build.v # NatStr(10)

(***************************************************************************)
(* C10: when several entries share the maximum buildNumber, the first of   *)
(* them in document order is selected and the outcome is that of this      *)
(* entry alone: without a URL there the run fails, whatever the later tied *)
(* entries hold.                                                           *)
(***************************************************************************)
C10_FirstOfTies ==
    EndedOnWellFormed
        => LET first == Items[FirstMaxIdx(Items)]
           IN  /\ max_build = first
               /\ Outcome = Resolve(ObjDoc(BuildList(<<first>>)))
               /\ AbsentOrEmpty(first.macDownloadUrl) => (pc = "failed" /\ NoDownloadUrl(err))

C10_Witness ==
    /\ pc = "failed"
    /\ NoDownloadUrl(err)
    /\ WellFormed(meta_file.doc)
    /\ Cardinality(MaxIdx(Items)) = 2
    /\ \E i \in MaxIdx(Items) : i > FirstMaxIdx(Items) /\ Usable(Items[i].macDownloadUrl)
====
